---- MODULE Spec2Model ----
(***************************************************************************)
(* Fetch queue and retry/backoff controller of Aqua-historikk.             *)
(*                                                                         *)
(*   src/src/build_transfers_backfill.py  restartable backfill queue       *)
(*   src/src/update_transfers_daily.py    bounded daily sweep              *)
(*                                                                         *)
(* Time is the integer clock read by now_epoch(); it is scaled down (the   *)
(* real lock timeout is 1800 s, the real attempt budget 12).               *)
(***************************************************************************)
EXTENDS Integers, Sequences, FiniteSets, TLC

\* ------------------------------------------------------------------ bounds
\* the clock runs from Epoch0 to MaxTime
MaxTime == 2
\* policy.max_attempts (12 in RetryPolicy), scaled down
MaxAttempts == 3
\* largest attempt_no handed to compute_backoff in SpecBackoff
MaxAttemptNo == 8

\* --------------------------------------------------------------- constants
\* RetryPolicy.base_sleep, RetryPolicy.max_sleep (whole seconds)
BaseSleep == 1
MaxSleep == 120
\* the cap of the global cooldown sleep, min(backoff, 10)
CooldownCap == 10
\* --lock-timeout, scaled down from its default of 1800 s
LockTimeout == 1

\* SQL NULL / Python None for the integer columns and locals
NULL == -1

\* two permit keys and two worker processes (lock owners); a claim is about
\* one row or a pair of rows, and a race about a pair of workers
Keys == {1, 2}
Workers == {1, 2}
\* the permit keys the daily selector is applied to
PickKeys == {1, 2, 3}

\* Retry-After values a 429 response can carry (NULL: header absent or unparsable)
RetryAfterHints == {NULL, 0}
\* hints fed to compute_backoff in SpecBackoff
BackoffHints == {NULL, 0, 1, 5, 64, 119, 120, 121, 300}

Min(a, b) == IF a <= b THEN a ELSE b

RECURSIVE Pow2(_)
Pow2(n) == IF n <= 0 THEN 1 ELSE 2 * Pow2(n - 1)

VARIABLES
  now,             \* time.time(), whole seconds
  permit_current,  \* the keys of table permit_current
  queue,           \* table transfers_backfill_queue: permit_key -> row
  license_transfers,  \* per key, the number of records of the last upsert_transfers
  inserted,        \* the value the last seed_queue call returned
  pc,              \* where each worker process is in main's loop
  claim_t,         \* claim_one's local t
  cand,            \* claim_one's local row["permit_key"] between SELECT and UPDATE
  permit_key,      \* main's local permit_key, the key being processed
  attempts_total,  \* process_one_permit's local attempts_total
  cooldown,        \* seconds handed to sleep_with_jitter after a rate limit
  bo_attempt, bo_hint, bo_out,  \* compute_backoff's arguments and result
  fetch_state,     \* table transfers_fetch_state: permit_key -> row
  d_pc,            \* where the daily command is
  args_max_rate_limited,  \* the value of its --max-rate-limited flag
  daily_keys,      \* run_daily's list keys
  d_i,             \* the number of keys its loop has finished
  ok, rate_limited, failed,   \* run_daily's counters
  exit_code,       \* the daily command's exit code
  d_limit, d_recent  \* pick_today_permits' limit and recent_keys, kept after a call

qvars == <<permit_current, queue, inserted>>
wvars == <<pc, claim_t, cand, permit_key, attempts_total, cooldown>>
bvars == <<bo_attempt, bo_hint, bo_out>>
dvars == <<fetch_state, d_pc, args_max_rate_limited, daily_keys, d_i, ok, rate_limited,
           failed, exit_code>>
pvars == <<d_limit, d_recent>>
vars == <<now, qvars, wvars, bvars, dvars, pvars, license_transfers>>

\* ------------------------------------------------------------ backoff policy
compute_backoff_nocap(attempt_no, retry_after_s) ==
  IF retry_after_s # NULL THEN retry_after_s
  ELSE BaseSleep * Pow2(attempt_no - 1)

compute_backoff(attempt_no, retry_after_s) ==
  IF retry_after_s # NULL
    THEN Min(retry_after_s, MaxSleep)
    ELSE LET base == BaseSleep * Pow2(attempt_no - 1)
         IN  Min(base, MaxSleep)

\* --------------------------------------------------------------- queue table
Row(status, attempts, next_retry_at, locked_at, lock_owner, last_error, updated_at) ==
  [status |-> status, attempts |-> attempts, next_retry_at |-> next_retry_at,
   locked_at |-> locked_at, lock_owner |-> lock_owner, last_error |-> last_error,
   updated_at |-> updated_at]

\* a row of transfers_fetch_state (last_ajour_date and last_error left out)
StateRow(last_fetched_at, last_status, next_retry_at) ==
  [last_fetched_at |-> last_fetched_at, last_status |-> last_status,
   next_retry_at |-> next_retry_at]

\* seed_queue's key list: permit_current ordered by permit_key, cut to limit
SeedKeys(limit) ==
  IF limit = NULL THEN permit_current
  ELSE {k \in permit_current : Cardinality({j \in permit_current : j < k}) < limit}

SeedInsertReplace(q, keys, t) ==
  [k \in DOMAIN q \cup keys |->
     IF k \in keys THEN Row("pending", 0, NULL, NULL, NULL, "NULL", t)
     ELSE q[k]]

\* INSERT OR IGNORE of one pending row per key; existing rows are skipped
SeedInsert(q, keys, t) ==
  [k \in DOMAIN q \cup keys |->
     IF k \in DOMAIN q THEN q[k]
     ELSE Row("pending", 0, NULL, NULL, NULL, "NULL", t)]

\* A run of main with --seed prints the count right after seed_queue returns.
\* The print touches nothing shared, so the other processes' steps are taken
\* after it: this loses no state of the tables.
SeedPrinted == inserted = NULL

\* a run of main with --seed: seed_queue(limit=args.seed_limit)
seed_queue(limit) ==
  LET keys == SeedKeys(limit)
  IN  /\ SeedPrinted
      /\ queue' = SeedInsert(queue, keys, now)
      /\ inserted' = Cardinality(keys \ DOMAIN queue)
      /\ UNCHANGED <<now, permit_current, wvars, bvars, pvars, license_transfers, dvars>>

\* main prints the count seed_queue returned
SeedPrint ==
  /\ inserted # NULL
  /\ inserted' = NULL
  /\ UNCHANGED <<now, permit_current, queue, wvars, bvars, pvars, license_transfers, dvars>>

\* the key universe grows between runs
AddPermit(k) ==
  /\ k \notin permit_current
  /\ SeedPrinted
  /\ permit_current' = permit_current \cup {k}
  /\ UNCHANGED <<now, queue, inserted, wvars, bvars, pvars, license_transfers, dvars>>

RetryDueNoNullTest(r, t) == r.next_retry_at <= t

\* next_retry_at IS NOT NULL AND next_retry_at <= ?
RetryDue(r, t) == r.next_retry_at # NULL /\ r.next_retry_at <= t

LeaseStaleLate(r, stale_before) == r.locked_at = NULL \/ r.locked_at <= stale_before + 1

\* locked_at IS NULL OR locked_at <= ?
LeaseStale(r, stale_before) == r.locked_at = NULL \/ r.locked_at <= stale_before

SelectWhereNoReclaim(r, t, stale_before) ==
  \/ r.status = "pending"
  \/ r.status = "failed" /\ RetryDue(r, t)

\* the WHERE clause of claim_one's SELECT
SelectWhere(r, t, stale_before) ==
  \/ r.status = "pending"
  \/ r.status = "failed" /\ RetryDue(r, t)
  \/ r.status = "in_progress" /\ LeaseStale(r, stale_before)

UpdateWhereAlways(r, t, stale_before) == TRUE

\* the WHERE clause of claim_one's UPDATE (besides permit_key = ?)
UpdateWhere(r, t, stale_before) ==
  \/ r.status = "pending"
  \/ r.status = "failed" /\ RetryDue(r, t)
  \/ r.status = "in_progress" /\ LeaseStale(r, stale_before)

StatusRankFlat(status) == 0

\* the ORDER BY of claim_one's SELECT
StatusRank(status) ==
  CASE status = "pending" -> 0
    [] status = "failed" -> 1
    [] status = "in_progress" -> 2
    [] OTHER -> 9

Coalesce(x, d) == IF x = NULL THEN d ELSE x

OrderBefore(a, b) ==
  \/ StatusRank(a.status) < StatusRank(b.status)
  \/ /\ StatusRank(a.status) = StatusRank(b.status)
     /\ \/ Coalesce(a.next_retry_at, 0) < Coalesce(b.next_retry_at, 0)
        \/ /\ Coalesce(a.next_retry_at, 0) = Coalesce(b.next_retry_at, 0)
           /\ a.updated_at < b.updated_at

\* the rows LIMIT 1 can return: first in the order; rows that tie are
\* returned in an order SQLite does not define
SelectFirst(q, t, stale_before) ==
  {k \in DOMAIN q :
     /\ SelectWhere(q[k], t, stale_before)
     /\ \A j \in DOMAIN q :
          SelectWhere(q[j], t, stale_before) => ~OrderBefore(q[j], q[k])}

mark_done_fresh(q, k, t) ==
  IF k \in DOMAIN q
    THEN [q EXCEPT ![k] = [@ EXCEPT !.status = "done", !.next_retry_at = NULL,
                                    !.locked_at = NULL, !.lock_owner = NULL,
                                    !.last_error = "NULL", !.updated_at = t]]
    ELSE q

mark_done(q, k, t) ==
  IF k \in DOMAIN q
    THEN [q EXCEPT ![k] = [@ EXCEPT !.status = "done", !.locked_at = NULL,
                                    !.lock_owner = NULL, !.last_error = "NULL",
                                    !.updated_at = t]]
    ELSE q

mark_failed_locked(q, k, attempts, err, retry_in_s, t) ==
  LET next_retry == IF retry_in_s # NULL THEN t + retry_in_s ELSE NULL
  IN  IF k \in DOMAIN q
        THEN [q EXCEPT ![k] = [@ EXCEPT !.status = "failed", !.attempts = attempts,
                                        !.next_retry_at = next_retry,
                                        !.last_error = err, !.updated_at = t]]
        ELSE q

mark_failed(q, k, attempts, err, retry_in_s, t) ==
  LET next_retry == IF retry_in_s # NULL THEN t + retry_in_s ELSE NULL
  IN  IF k \in DOMAIN q
        THEN [q EXCEPT ![k] = [@ EXCEPT !.status = "failed", !.attempts = attempts,
                                        !.next_retry_at = next_retry,
                                        !.locked_at = NULL, !.lock_owner = NULL,
                                        !.last_error = err, !.updated_at = t]]
        ELSE q

\* ------------------------------------------------------------- worker loop
\* the epoch is positive: every stored time is above COALESCE's default of 0
Epoch0 == 1
\* process_one_permit's attempt_no where it calls compute_backoff: the loop
\* body returns on every path, so the counter is 1 there
AttemptNo == 1

\* --seed-limit: absent, or a count
SeedLimits == {NULL} \cup (0..Cardinality(Keys))

Idle(w) ==
  /\ pc' = [pc EXCEPT ![w] = "idle"]
  /\ claim_t' = [claim_t EXCEPT ![w] = NULL]
  /\ cand' = [cand EXCEPT ![w] = NULL]
  /\ permit_key' = [permit_key EXCEPT ![w] = NULL]
  /\ attempts_total' = [attempts_total EXCEPT ![w] = NULL]
  /\ cooldown' = [cooldown EXCEPT ![w] = NULL]

\* claim_one up to its SELECT; no row: it returns None, main sleeps and loops
ClaimSelect(w) ==
  /\ pc[w] = "idle"
  /\ SeedPrinted
  /\ LET t == now
         stale_before == t - LockTimeout
         first == SelectFirst(queue, t, stale_before)
     IN  IF first = {}
           THEN UNCHANGED wvars
           ELSE \E k \in first :
                  /\ pc' = [pc EXCEPT ![w] = "claim_update"]
                  /\ claim_t' = [claim_t EXCEPT ![w] = t]
                  /\ cand' = [cand EXCEPT ![w] = k]
                  /\ UNCHANGED <<permit_key, attempts_total, cooldown>>
  /\ UNCHANGED <<now, qvars, bvars, pvars, license_transfers, dvars>>

ClaimUpdateResets(w) ==
  /\ pc[w] = "claim_update"
  /\ SeedPrinted
  /\ LET t == claim_t[w]
         stale_before == t - LockTimeout
         k == cand[w]
     IN  IF UpdateWhere(queue[k], t, stale_before)
           THEN /\ queue' = [queue EXCEPT ![k] =
                       [@ EXCEPT !.status = "in_progress", !.attempts = 0,
                                 !.locked_at = t, !.lock_owner = w, !.updated_at = t]]
                /\ pc' = [pc EXCEPT ![w] = "read_attempts"]
                /\ permit_key' = [permit_key EXCEPT ![w] = k]
                /\ claim_t' = [claim_t EXCEPT ![w] = NULL]
                /\ cand' = [cand EXCEPT ![w] = NULL]
                /\ UNCHANGED <<attempts_total, cooldown>>
           ELSE /\ Idle(w)
                /\ UNCHANGED queue
  /\ UNCHANGED <<now, permit_current, inserted, bvars, pvars, license_transfers, dvars>>

\* claim_one's conditional UPDATE and commit; rowcount # 1: it returns None
ClaimUpdate(w) ==
  /\ pc[w] = "claim_update"
  /\ SeedPrinted
  /\ LET t == claim_t[w]
         stale_before == t - LockTimeout
         k == cand[w]
     IN  IF UpdateWhere(queue[k], t, stale_before)
           THEN /\ queue' = [queue EXCEPT ![k] =
                       [@ EXCEPT !.status = "in_progress", !.locked_at = t,
                                 !.lock_owner = w, !.updated_at = t]]
                /\ pc' = [pc EXCEPT ![w] = "read_attempts"]
                /\ permit_key' = [permit_key EXCEPT ![w] = k]
                /\ claim_t' = [claim_t EXCEPT ![w] = NULL]
                /\ cand' = [cand EXCEPT ![w] = NULL]
                /\ UNCHANGED <<attempts_total, cooldown>>
           ELSE /\ Idle(w)
                /\ UNCHANGED queue
  /\ UNCHANGED <<now, permit_current, inserted, bvars, pvars, license_transfers, dvars>>

\* process_one_permit: SELECT attempts, then the loop head's attempts_total += 1
ReadAttempts(w) ==
  /\ pc[w] = "read_attempts"
  /\ SeedPrinted
  /\ attempts_total' = [attempts_total EXCEPT ![w] = queue[permit_key[w]].attempts + 1]
  /\ pc' = [pc EXCEPT ![w] = "fetch"]
  /\ UNCHANGED <<now, qvars, claim_t, cand, permit_key, cooldown, bvars, pvars, license_transfers, dvars>>

\* what fetch_transfers_with_handling returns: the JSON of a 200 answer with
\* its number of transfers, or the empty result it makes of a 404
FetchResults == {[http |-> 200, transfers |-> 0], [http |-> 200, transfers |-> 1],
                 [http |-> 404, transfers |-> 0]}
\* what update_current_ownership_period_from_transfers does: it links the
\* current period, finds none, or raises (ownership_history is not modelled)
LinkageResults == {"linked", "no_period", "raises"}

\* upsert_transfers(conn, permit_key, data)
upsert_transfers(lt, k, transfers) == [lt EXCEPT ![k] = transfers]

\* fetch and upsert succeed, the ownership update is tried and what it raises
\* is swallowed: mark_done
FetchDone(w, data, linkage) ==
  /\ pc[w] = "fetch"
  /\ SeedPrinted
  /\ license_transfers' = upsert_transfers(license_transfers, permit_key[w], data.transfers)
  /\ queue' = mark_done(queue, permit_key[w], now)
  /\ Idle(w)
  /\ UNCHANGED <<now, permit_current, inserted, bvars, pvars, dvars>>

BudgetLeftAlways(attempts) == TRUE
BudgetLeft(attempts) == ~(attempts >= MaxAttempts)

\* except RateLimitError
FetchRateLimited(w, retry_after_s) ==
  /\ pc[w] = "fetch"
  /\ SeedPrinted
  /\ IF ~BudgetLeft(attempts_total[w])
       THEN /\ queue' = mark_failed(queue, permit_key[w], attempts_total[w],
                                    "RateLimitError", NULL, now)
            /\ Idle(w)
       ELSE LET backoff == compute_backoff(AttemptNo, retry_after_s)
                seconds == Min(backoff, CooldownCap)
            IN  /\ queue' = mark_failed(queue, permit_key[w], attempts_total[w],
                                        "RateLimitError", backoff, now)
                /\ IF seconds <= 0
                     THEN Idle(w)
                     ELSE /\ pc' = [pc EXCEPT ![w] = "cooldown"]
                          /\ cooldown' = [cooldown EXCEPT ![w] = seconds]
                          /\ permit_key' = [permit_key EXCEPT ![w] = NULL]
                          /\ attempts_total' = [attempts_total EXCEPT ![w] = NULL]
                          /\ UNCHANGED <<claim_t, cand>>
  /\ UNCHANGED <<now, permit_current, inserted, bvars, pvars, license_transfers, dvars>>

\* except TransientAPIError
FetchTransient(w) ==
  /\ pc[w] = "fetch"
  /\ SeedPrinted
  /\ IF ~BudgetLeft(attempts_total[w])
       THEN queue' = mark_failed(queue, permit_key[w], attempts_total[w],
                                 "TransientAPIError", NULL, now)
       ELSE LET backoff == compute_backoff(AttemptNo, NULL)
            IN  queue' = mark_failed(queue, permit_key[w], attempts_total[w],
                                     "TransientAPIError", backoff, now)
  /\ Idle(w)
  /\ UNCHANGED <<now, permit_current, inserted, bvars, pvars, license_transfers, dvars>>

\* except Exception: hard fail
FetchPermanent(w) ==
  /\ pc[w] = "fetch"
  /\ SeedPrinted
  /\ queue' = mark_failed(queue, permit_key[w], attempts_total[w], "Unhandled", NULL, now)
  /\ Idle(w)
  /\ UNCHANGED <<now, permit_current, inserted, bvars, pvars, license_transfers, dvars>>

\* sleep_with_jitter returns
Wake(w) ==
  /\ pc[w] = "cooldown"
  /\ SeedPrinted
  /\ Idle(w)
  /\ UNCHANGED <<now, qvars, bvars, pvars, license_transfers, dvars>>

Tick ==
  /\ now < MaxTime
  /\ SeedPrinted
  /\ now' = now + 1
  /\ UNCHANGED <<qvars, wvars, bvars, pvars, license_transfers, dvars>>

WorkerStep(w) ==
  \/ ClaimSelect(w)
  \/ ClaimUpdate(w)
  \/ ReadAttempts(w)
  \/ \E data \in FetchResults : \E linkage \in LinkageResults : FetchDone(w, data, linkage)
  \/ \E h \in RetryAfterHints : FetchRateLimited(w, h)
  \/ FetchTransient(w)
  \/ FetchPermanent(w)
  \/ Wake(w)

\* the tables as ensure_queue_table and ensure_state_table create them, every
\* process before its first step
InitQueue ==
  /\ now = Epoch0
  /\ queue = [k \in {} |-> Row("pending", 0, NULL, NULL, NULL, "NULL", 0)]
  /\ inserted = NULL
  /\ license_transfers = [k \in Keys \cup PickKeys |-> NULL]
  /\ pc = [w \in Workers |-> "idle"]
  /\ claim_t = [w \in Workers |-> NULL]
  /\ cand = [w \in Workers |-> NULL]
  /\ permit_key = [w \in Workers |-> NULL]
  /\ attempts_total = [w \in Workers |-> NULL]
  /\ cooldown = [w \in Workers |-> NULL]

InitQueueSeeded ==
  /\ now = Epoch0
  /\ queue = SeedInsert(<<>>, Keys, Epoch0)
  /\ inserted = NULL
  /\ license_transfers = [k \in Keys \cup PickKeys |-> NULL]
  /\ pc = [w \in Workers |-> "idle"]
  /\ claim_t = [w \in Workers |-> NULL]
  /\ cand = [w \in Workers |-> NULL]
  /\ permit_key = [w \in Workers |-> NULL]
  /\ attempts_total = [w \in Workers |-> NULL]
  /\ cooldown = [w \in Workers |-> NULL]

InitFetchState == [k \in {} |-> StateRow(NULL, "NULL", NULL)]

InitDaily ==
  /\ fetch_state = InitFetchState
  /\ d_pc = "start"
  /\ args_max_rate_limited = NULL
  /\ daily_keys = <<>>
  /\ d_i = 0
  /\ ok = 0 /\ rate_limited = 0 /\ failed = 0
  /\ exit_code = NULL
  /\ d_limit = NULL /\ d_recent = <<>>

Init ==
  /\ InitQueue
  /\ InitDaily
  /\ permit_current = {1}
  /\ bo_attempt = NULL /\ bo_hint = NULL /\ bo_out = NULL

Next ==
  \/ \E limit \in SeedLimits : seed_queue(limit)
  \/ SeedPrint
  \/ \E k \in Keys : AddPermit(k)
  \/ \E w \in Workers : WorkerStep(w)
  \/ Tick

Spec == Init /\ [][Next]_vars

\* one worker process alone on the queue
NextSolo ==
  \/ \E limit \in SeedLimits : seed_queue(limit)
  \/ SeedPrint
  \/ \E k \in Keys : AddPermit(k)
  \/ WorkerStep(1)
  \/ Tick

SpecSolo == Init /\ [][NextSolo]_vars

\* compute_backoff applied to every attempt number and hint of the bounded sets
InitBackoff ==
  /\ InitQueue
  /\ InitDaily
  /\ permit_current = {1}
  /\ bo_attempt \in 1..MaxAttemptNo
  /\ bo_hint \in BackoffHints
  /\ bo_out = NULL

Backoff ==
  /\ bo_out = NULL
  /\ bo_out' = compute_backoff(bo_attempt, bo_hint)
  /\ UNCHANGED <<now, qvars, wvars, bo_attempt, bo_hint, dvars, pvars, license_transfers>>

SpecBackoff == InitBackoff /\ [][Backoff]_vars

\* ------------------------------------------------------------- daily sweep
\* The daily command runs on its own clock bound
MaxDailyTime == 4
\* run_daily's max_rate_limited parameter: __main__ does not pass the flag, so
\* the parameter keeps its default
MaxRateLimitedDefault == 50
\* stale_after_days * 86400 seconds, scaled down
StaleAfter == 2
\* the cooldown of a 429 without a usable Retry-After (30 s), scaled down
DailyBackoffDefault == 1

\* values of --max-rate-limited and of --limit
FlagCeilings == {0, 1, 50}
DailyLimits == 0..3
\* Retry-After values of a 429 answer in daily mode
DailyHints == {NULL, 0, 2}

\* duplicate-free lists over a set: the rows of SELECT DISTINCT in any order
RECURSIVE ListsOf(_)
ListsOf(S) ==
  IF S = {} THEN {<<>>}
  ELSE UNION {{<<k>> \o l : l \in ListsOf(S \ {k})} : k \in S}

StaleWhereChecked(k, t, stale_before) ==
  /\ k \in DOMAIN fetch_state
  /\ fetch_state[k].last_fetched_at # NULL
  /\ fetch_state[k].last_fetched_at < stale_before
  /\ fetch_state[k].next_retry_at = NULL \/ fetch_state[k].next_retry_at <= t

StaleWhereCooldownDue(k, t, stale_before) ==
  LET s == IF k \in DOMAIN fetch_state THEN fetch_state[k]
           ELSE StateRow(NULL, "NULL", NULL)
  IN  \/ s.last_fetched_at = NULL
      \/ s.last_fetched_at < stale_before /\ (s.next_retry_at = NULL \/ s.next_retry_at <= t)
      \/ s.next_retry_at # NULL /\ s.next_retry_at <= t

\* the staleness query's WHERE, on permit_current LEFT JOIN transfers_fetch_state
StaleWhere(k, t, stale_before) ==
  LET s == IF k \in DOMAIN fetch_state THEN fetch_state[k]
           ELSE StateRow(NULL, "NULL", NULL)
  IN  /\ s.last_fetched_at = NULL \/ s.last_fetched_at < stale_before
      /\ s.next_retry_at = NULL \/ s.next_retry_at <= t

\* its ORDER BY COALESCE(s.last_fetched_at, 0) ASC, pc.permit_key
StaleBefore(j, k) ==
  LET fj == IF j \in DOMAIN fetch_state THEN Coalesce(fetch_state[j].last_fetched_at, 0) ELSE 0
      fk == IF k \in DOMAIN fetch_state THEN Coalesce(fetch_state[k].last_fetched_at, 0) ELSE 0
  IN  fj < fk \/ (fj = fk /\ j < k)

RECURSIVE SortedStale(_)
SortedStale(S) ==
  IF S = {} THEN <<>>
  ELSE LET k == CHOOSE x \in S : \A y \in S \ {x} : StaleBefore(x, y)
       IN  <<k>> \o SortedStale(S \ {k})

TakeShort(l, n) == IF Len(l) <= n - 1 THEN l ELSE SubSeq(l, 1, n - 1)

\* LIMIT ?
Take(l, n) == IF Len(l) <= n THEN l ELSE SubSeq(l, 1, n)

StaleKeys(t, stale_before, limit) ==
  Take(SortedStale({k \in permit_current : StaleWhere(k, t, stale_before)}), limit)

\* the loop that merges recent_keys + stale_keys
RECURSIVE Combine(_, _, _)
Combine(l, out, limit) ==
  IF l = <<>> THEN out
  ELSE LET k == Head(l)
           out1 == IF \E i \in 1..Len(out) : out[i] = k THEN out ELSE Append(out, k)
       IN  IF Len(out1) >= limit THEN out1 ELSE Combine(Tail(l), out1, limit)

pick_today_permits(recent_keys, limit) ==
  LET t == now
      stale_before == t - StaleAfter
  IN  Combine(recent_keys \o StaleKeys(t, stale_before, limit), <<>>, limit)

mark_state(fs, k, status, next_retry_at, t) ==
  [j \in DOMAIN fs \cup {k} |->
     IF j = k THEN StateRow(t, status, next_retry_at) ELSE fs[j]]

\* __main__: parse_args, then run_daily up to its loop; recent_keys is what the
\* ownership_history query returns
DailyStart(flag, limit, recent_keys) ==
  /\ d_pc = "start"
  /\ args_max_rate_limited' = flag
  /\ daily_keys' = pick_today_permits(recent_keys, limit)
  /\ d_i' = 0
  /\ ok' = 0 /\ rate_limited' = 0 /\ failed' = 0
  /\ d_pc' = "loop"
  /\ UNCHANGED <<now, qvars, wvars, bvars, pvars, license_transfers, fetch_state, exit_code>>

DailyItem == d_pc = "loop" /\ d_i < Len(daily_keys)

\* fetch, upsert and mark_state "ok" (what the ownership update raises is
\* swallowed), or a 404: upsert of no transfers and mark_state
\* "ok_404_no_transfers"
DailyOk(data, linkage) ==
  /\ DailyItem
  /\ license_transfers' = upsert_transfers(license_transfers, daily_keys[d_i + 1],
                                           data.transfers)
  /\ fetch_state' = mark_state(fetch_state, daily_keys[d_i + 1],
                               IF data.http = 404 THEN "ok_404_no_transfers" ELSE "ok",
                               NULL, now)
  /\ ok' = ok + 1
  /\ d_i' = d_i + 1
  /\ UNCHANGED <<now, qvars, wvars, bvars, pvars, d_pc, args_max_rate_limited, daily_keys,
                 rate_limited, failed, exit_code>>

\* a 429: cooldown for the key, then the global cooldown sleep
DailyRateLimited(retry_after) ==
  /\ DailyItem
  /\ LET backoff == IF retry_after # NULL THEN retry_after ELSE DailyBackoffDefault
         next_retry_at == now + backoff
     IN  /\ fetch_state' = mark_state(fetch_state, daily_keys[d_i + 1], "rate_limited",
                                      next_retry_at, now)
         /\ d_pc' = IF Min(backoff, CooldownCap) <= 0 THEN "loop" ELSE "cooldown"
  /\ rate_limited' = rate_limited + 1
  /\ d_i' = d_i + 1
  /\ UNCHANGED <<now, qvars, wvars, bvars, pvars, license_transfers, args_max_rate_limited, daily_keys, ok, failed,
                 exit_code>>

DailyFailedAborts ==
  /\ DailyItem
  /\ d_pc' = "exited"
  /\ exit_code' = 1
  /\ UNCHANGED <<now, qvars, wvars, bvars, pvars, license_transfers, fetch_state,
                 args_max_rate_limited, daily_keys, d_i, ok, rate_limited, failed>>

\* another HTTPError, a Timeout, any other Exception
DailyFailed ==
  /\ DailyItem
  /\ fetch_state' = mark_state(fetch_state, daily_keys[d_i + 1], "failed", NULL, now)
  /\ failed' = failed + 1
  /\ d_i' = d_i + 1
  /\ UNCHANGED <<now, qvars, wvars, bvars, pvars, license_transfers, d_pc, args_max_rate_limited, daily_keys, ok,
                 rate_limited, exit_code>>

\* sleep_jitter returns
DailyWake ==
  /\ d_pc = "cooldown"
  /\ d_pc' = "loop"
  /\ UNCHANGED <<now, qvars, wvars, bvars, pvars, license_transfers, fetch_state, args_max_rate_limited,
                 daily_keys, d_i, ok, rate_limited, failed, exit_code>>

\* the end of run_daily: raise SystemExit(2) or return
DailyExit(max_rate_limited) ==
  /\ d_pc = "loop" /\ d_i = Len(daily_keys)
  /\ exit_code' = IF rate_limited > max_rate_limited THEN 2 ELSE 0
  /\ d_pc' = "exited"
  /\ UNCHANGED <<now, qvars, wvars, bvars, pvars, license_transfers, fetch_state, args_max_rate_limited,
                 daily_keys, d_i, ok, rate_limited, failed>>

\* the next invocation of the command
DailyAgain ==
  /\ d_pc = "exited"
  /\ d_pc' = "start"
  /\ args_max_rate_limited' = NULL
  /\ daily_keys' = <<>>
  /\ d_i' = 0
  /\ ok' = 0 /\ rate_limited' = 0 /\ failed' = 0
  /\ exit_code' = NULL
  /\ UNCHANGED <<now, qvars, wvars, bvars, pvars, license_transfers, fetch_state>>

DailyTick ==
  /\ now < MaxDailyTime
  /\ now' = now + 1
  /\ UNCHANGED <<qvars, wvars, bvars, pvars, license_transfers, dvars>>

NextDaily ==
  \/ \E flag \in FlagCeilings : \E limit \in DailyLimits :
       \E R \in SUBSET Keys : \E recent_keys \in ListsOf(R) :
         DailyStart(flag, limit, recent_keys)
  \/ \E data \in FetchResults : \E linkage \in LinkageResults : DailyOk(data, linkage)
  \/ \E h \in DailyHints : DailyRateLimited(h)
  \/ DailyFailed
  \/ DailyWake
  \/ DailyExit(MaxRateLimitedDefault)
  \/ DailyAgain
  \/ DailyTick

InitDailyRun ==
  /\ InitQueue
  /\ InitDaily
  /\ permit_current = Keys
  /\ bo_attempt = NULL /\ bo_hint = NULL /\ bo_out = NULL

SpecDaily == InitDailyRun /\ [][NextDaily]_vars

\* ---------------------------------------------------------------- selector
\* pick_today_permits applied to every content of its tables, the clock at
\* MaxPickTime
MaxPickTime == 4
\* cooldowns a 429 left behind: next_retry_at - last_fetched_at
PickCooldowns == {1, 4}

\* the rows mark_state can have written for a key before MaxPickTime
PickRows ==
  {StateRow(t, "ok", NULL) : t \in 1..(MaxPickTime - 1)}
  \cup {StateRow(t, "rate_limited", t + d) : t \in 1..(MaxPickTime - 1), d \in PickCooldowns}

\* transfers_fetch_state holds a row for some keys and none for the others
PickStates == UNION {[S -> PickRows] : S \in SUBSET PickKeys}

InitPick ==
  /\ now = MaxPickTime
  /\ queue = [k \in {} |-> Row("pending", 0, NULL, NULL, NULL, "NULL", 0)]
  /\ inserted = NULL
  /\ license_transfers = [k \in Keys \cup PickKeys |-> NULL]
  /\ pc = [w \in Workers |-> "idle"]
  /\ claim_t = [w \in Workers |-> NULL]
  /\ cand = [w \in Workers |-> NULL]
  /\ permit_key = [w \in Workers |-> NULL]
  /\ attempts_total = [w \in Workers |-> NULL]
  /\ cooldown = [w \in Workers |-> NULL]
  /\ permit_current \in {PickKeys, {1, 2}}
  /\ fetch_state \in PickStates
  /\ d_pc = "start"
  /\ args_max_rate_limited = NULL
  /\ daily_keys = <<>>
  /\ d_i = 0
  /\ ok = 0 /\ rate_limited = 0 /\ failed = 0
  /\ exit_code = NULL
  /\ d_limit = NULL /\ d_recent = <<>>
  /\ bo_attempt = NULL /\ bo_hint = NULL /\ bo_out = NULL

\* one call pick_today_permits(conn, limit=limit) whose ownership_history
\* query returns recent_keys
Pick(recent_keys, limit) ==
  /\ d_limit = NULL
  /\ daily_keys' = pick_today_permits(recent_keys, limit)
  /\ d_limit' = limit
  /\ d_recent' = recent_keys
  /\ UNCHANGED <<now, qvars, wvars, bvars, fetch_state, d_pc, args_max_rate_limited,
                 d_i, ok, rate_limited, failed, exit_code, license_transfers>>

NextPick ==
  \E limit \in DailyLimits : \E R \in SUBSET PickKeys : \E recent_keys \in ListsOf(R) :
    Pick(recent_keys, limit)

SpecPick == InitPick /\ [][NextPick]_vars

\* ------------------------------------------------------------- interrupt
\* SIGINT: Python raises KeyboardInterrupt in the main thread wherever it is.
\* It is no Exception, so no handler of claim_one, process_one_permit or the
\* fetch wrapper catches it; main's handler prints the stats and returns. An
\* UPDATE not yet committed is rolled back when the process ends.
Interrupt(w) ==
  /\ pc[w] # "stopped"
  /\ SeedPrinted
  /\ pc' = [pc EXCEPT ![w] = "stopped"]
  /\ claim_t' = [claim_t EXCEPT ![w] = NULL]
  /\ cand' = [cand EXCEPT ![w] = NULL]
  /\ permit_key' = [permit_key EXCEPT ![w] = NULL]
  /\ attempts_total' = [attempts_total EXCEPT ![w] = NULL]
  /\ cooldown' = [cooldown EXCEPT ![w] = NULL]
  /\ UNCHANGED <<now, qvars, bvars, dvars, pvars, license_transfers>>

\* one backfill worker, which the operator may interrupt
NextInterrupt ==
  \/ \E limit \in SeedLimits : seed_queue(limit)
  \/ SeedPrint
  \/ \E k \in Keys : AddPermit(k)
  \/ WorkerStep(1)
  \/ Interrupt(1)
  \/ Tick

SpecInterrupt == Init /\ [][NextInterrupt]_vars

\* ------------------------------------------------------------ completion
\* The backfill run to its end: the queue is seeded with every key, worker 1
\* keeps running, worker 2 may be arbitrarily slow or be stopped for good at
\* any point (a crash: its row stays in_progress under its lease), and the
\* clock never stops. The clock is kept in a window: once now has reached
\* MaxTime a second passes by moving every stored time one second into the
\* past instead. A stored time at Epoch0 is then at least LockTimeout old and
\* stands for any older time; claim_one compares it with now and gets the same
\* result. A claim_one call reads the clock once; in the window no such second
\* passes between its SELECT and its UPDATE.
Older(t) == IF t = NULL THEN NULL ELSE IF t > Epoch0 THEN t - 1 ELSE Epoch0

TickLive ==
  /\ SeedPrinted
  /\ IF now < MaxTime
       THEN /\ now' = now + 1
            /\ UNCHANGED queue
       ELSE /\ \A w \in Workers : claim_t[w] = NULL
            /\ now' = now
            /\ queue' = [k \in DOMAIN queue |->
                           [queue[k] EXCEPT !.next_retry_at = Older(@),
                                            !.locked_at = Older(@),
                                            !.updated_at = Older(@)]]
  /\ UNCHANGED <<permit_current, inserted, wvars, bvars, dvars, pvars, license_transfers>>

\* a claim_one call that has done its SELECT does its UPDATE, unless the
\* process is killed first
ClaimEnds(w) == ClaimUpdate(w) \/ (pc[w] = "claim_update" /\ Interrupt(w))

\* after main --seed: one pending row per key
InitLive ==
  /\ InitQueueSeeded
  /\ InitDaily
  /\ permit_current = Keys
  /\ bo_attempt = NULL /\ bo_hint = NULL /\ bo_out = NULL

\* the worker's steps; every successful fetch returns the same JSON
WorkerStepLive(w) ==
  \/ ClaimSelect(w)
  \/ ClaimUpdate(w)
  \/ ReadAttempts(w)
  \/ FetchDone(w, [http |-> 200, transfers |-> 1], "linked")
  \/ \E h \in RetryAfterHints : FetchRateLimited(w, h)
  \/ FetchTransient(w)
  \/ FetchPermanent(w)
  \/ Wake(w)

NextLive ==
  \/ \E w \in Workers : WorkerStepLive(w)
  \/ Interrupt(2)
  \/ TickLive

SpecLive ==
  /\ InitLive /\ [][NextLive]_vars
  /\ WF_vars(WorkerStepLive(1)) /\ WF_vars(ClaimEnds(2)) /\ WF_vars(TickLive)

\* ---------------------------------------------------------- timely workers
\* Workers that record every outcome less than LockTimeout seconds after the
\* claim's t, or are killed and stay dead: the clock does not reach t +
\* LockTimeout while a claim or a processing that started at t is under way.
InFlight(w) == pc[w] \in {"read_attempts", "fetch"}

ClaimTime(w) ==
  IF pc[w] = "claim_update" THEN claim_t[w] ELSE queue[permit_key[w]].locked_at

TickTimely ==
  /\ \A w \in Workers :
       pc[w] = "claim_update" \/ InFlight(w) => now + 1 < ClaimTime(w) + LockTimeout
  /\ Tick

NextTimely ==
  \/ \E limit \in SeedLimits : seed_queue(limit)
  \/ SeedPrint
  \/ \E k \in Keys : AddPermit(k)
  \/ \E w \in Workers : WorkerStep(w)
  \/ \E w \in Workers : Interrupt(w)
  \/ TickTimely

SpecTimely == Init /\ [][NextTimely]_vars

\* ------------------------------------------------------ either command
\* one of the two commands is run on the database: the backfill workers
\* (d_pc = "off", the daily command is not started) or the daily command
InitModes ==
  /\ InitQueue
  /\ InitDaily
  /\ permit_current = Keys
  /\ bo_attempt = NULL /\ bo_hint = NULL /\ bo_out = NULL

BackfillMode == d_pc = "off"

\* the shell starts the backfill workers instead of the daily command
StartBackfill ==
  /\ d_pc = "start" /\ now = Epoch0 /\ fetch_state = InitFetchState
  /\ d_pc' = "off"
  /\ UNCHANGED <<now, qvars, wvars, bvars, pvars, license_transfers, fetch_state,
                 args_max_rate_limited, daily_keys, d_i, ok, rate_limited, failed,
                 exit_code>>

\* the steps of one backfill worker and of the daily command
NextModes ==
  \/ StartBackfill
  \/ BackfillMode /\ \E limit \in SeedLimits : seed_queue(limit)
  \/ BackfillMode /\ SeedPrint
  \/ BackfillMode /\ ClaimSelect(1)
  \/ BackfillMode /\ ClaimUpdate(1)
  \/ BackfillMode /\ ReadAttempts(1)
  \/ BackfillMode /\ \E data \in FetchResults : \E linkage \in LinkageResults :
                        FetchDone(1, data, linkage)
  \/ BackfillMode /\ \E h \in RetryAfterHints : FetchRateLimited(1, h)
  \/ BackfillMode /\ FetchTransient(1)
  \/ BackfillMode /\ FetchPermanent(1)
  \/ BackfillMode /\ Wake(1)
  \/ BackfillMode /\ Tick
  \/ ~BackfillMode /\ \E limit \in DailyLimits :
                         \E R \in SUBSET Keys : \E recent_keys \in ListsOf(R) :
                           DailyStart(MaxRateLimitedDefault, limit, recent_keys)
  \/ ~BackfillMode /\ \E data \in FetchResults : \E linkage \in LinkageResults :
                         DailyOk(data, linkage)
  \/ ~BackfillMode /\ \E h \in DailyHints : DailyRateLimited(h)
  \/ ~BackfillMode /\ DailyFailed
  \/ ~BackfillMode /\ DailyWake
  \/ ~BackfillMode /\ DailyExit(MaxRateLimitedDefault)
  \/ ~BackfillMode /\ DailyAgain
  \/ ~BackfillMode /\ DailyTick

SpecModes == InitModes /\ [][NextModes]_vars

\* ------------------------------------------------------- repeated daily runs
\* The daily command run again and again with --limit >= 1, the clock
\* advancing; the selector's arguments of the current run are kept. A limit
\* above the number of keys selects as that number does.
RevisitLimits == 1..Cardinality(Keys)

\* run_daily up to its loop, as DailyStart, with pick_today_permits' limit and
\* recent_keys kept
RevisitStart(limit, recent_keys) ==
  /\ d_pc = "start"
  /\ args_max_rate_limited' = MaxRateLimitedDefault
  /\ daily_keys' = pick_today_permits(recent_keys, limit)
  /\ d_limit' = limit
  /\ d_recent' = recent_keys
  /\ d_i' = 0
  /\ ok' = 0 /\ rate_limited' = 0 /\ failed' = 0
  /\ d_pc' = "loop"
  /\ UNCHANGED <<now, qvars, wvars, bvars, license_transfers, fetch_state, exit_code>>

\* the steps of the command, the clock apart
RevisitRun ==
  \/ \E limit \in RevisitLimits : \E R \in SUBSET Keys : \E recent_keys \in ListsOf(R) :
       RevisitStart(limit, recent_keys)
  \/ DailyOk([http |-> 200, transfers |-> 1], "linked")
  \/ \E h \in DailyHints : DailyRateLimited(h)
  \/ DailyFailed
  \/ DailyWake
  \/ DailyExit(MaxRateLimitedDefault)
  \/ DailyAgain

NextRevisit == RevisitRun \/ DailyTick

SpecRevisit ==
  InitDailyRun /\ [][NextRevisit]_vars /\ WF_vars(RevisitRun) /\ WF_vars(DailyTick)

\* ------------------------------------------------------------------ claims
\* steps of the worker loop, as the claims speak of them
ClaimReturns(w, k) ==
  pc[w] = "claim_update" /\ pc'[w] = "read_attempts" /\ permit_key'[w] = k

Selects(w) == pc[w] = "idle" /\ pc'[w] = "claim_update"

Records(w, k) ==
  pc[w] = "fetch" /\ permit_key[w] = k /\ pc'[w] \in {"idle", "cooldown"}

\* eligibility as the claims define it, at time t with lock timeout LockTimeout
IsPending(r) == r.status = "pending"
IsRetryDue(r, t) == r.status = "failed" /\ r.next_retry_at # NULL /\ r.next_retry_at <= t
IsStale(r, t) ==
  r.status = "in_progress" /\ (r.locked_at = NULL \/ r.locked_at <= t - LockTimeout)
IsEligible(r, t) == IsPending(r) \/ IsRetryDue(r, t) \/ IsStale(r, t)
IsPermanent(r) == r.status = "failed" /\ r.next_retry_at = NULL

\* C1: a claim_one call returns a key only if, at the moment of its UPDATE, the
\* row is eligible (pending, failed with next_retry_at <= now, or in_progress
\* with locked_at <= now - lock_timeout). A row another worker has just claimed
\* is none of these, so between two successful claims of a key the row was
\* released or its lease went stale: no interleaving of SELECTs and UPDATEs
\* hands one eligibility episode to two callers.
C1_NoDoubleClaim ==
  [][\A w \in Workers : \A k \in DOMAIN queue :
       ClaimReturns(w, k) =>
         /\ IsEligible(queue[k], now)
         /\ queue'[k].status = "in_progress"
         /\ queue'[k].lock_owner = w]_vars

\* a worker is about to lose the race for the row it selected: another worker
\* holds the row under a lease that is live for this worker's claim
C1_Witness ==
  \E w \in Workers : \E v \in Workers \ {w} :
    /\ pc[w] = "claim_update"
    /\ permit_key[v] = cand[w]
    /\ queue[cand[w]].status = "in_progress"
    /\ queue[cand[w]].lock_owner = v
    /\ ~IsEligible(queue[cand[w]], now)

\* C2: every status change of a row is one of pending->in_progress,
\* in_progress->done, in_progress->failed, failed->in_progress; a done row
\* stays done.
AllowedStatusChange ==
  {<<"pending", "in_progress">>, <<"in_progress", "done">>,
   <<"in_progress", "failed">>, <<"failed", "in_progress">>,
   <<"in_progress", "in_progress">>}

C2_StatusMachine ==
  [][\A k \in DOMAIN queue :
       /\ queue'[k].status # queue[k].status =>
            <<queue[k].status, queue'[k].status>> \in AllowedStatusChange
       /\ queue[k].status = "done" => queue'[k].status = "done"]_vars

Retryable == {"RateLimitError", "TransientAPIError"}

\* C3: with one worker processing a key (each processing claimed and recorded),
\* every Rate-limited or Transient outcome raises the stored attempts by one;
\* the row is then failed, with a next_retry_at while attempts < max_attempts
\* and with next_retry_at = NULL and attempts = max_attempts at the
\* max_attempts-th; a row in that last state is not claimed again.
C3_AttemptBudget ==
  [][\A k \in DOMAIN queue :
       /\ (\E w \in Workers : Records(w, k)) /\ queue'[k].last_error \in Retryable =>
            /\ queue'[k].status = "failed"
            /\ queue'[k].attempts = queue[k].attempts + 1
            /\ queue'[k].attempts <= MaxAttempts
            /\ queue'[k].attempts < MaxAttempts => queue'[k].next_retry_at # NULL
            /\ queue'[k].attempts = MaxAttempts => queue'[k].next_retry_at = NULL
       /\ queue[k].attempts = MaxAttempts /\ IsPermanent(queue[k]) =>
            queue'[k] = queue[k]]_vars

\* the budget of a key ran out on a Rate-limited or Transient outcome
C3_Witness ==
  \E k \in DOMAIN queue :
    /\ IsPermanent(queue[k])
    /\ queue[k].attempts = MaxAttempts
    /\ queue[k].last_error \in Retryable

\* C4 as stated: an in_progress row held by another owner is returned by
\* claim_one(w2, T) called at time t if and only if its locked_at is at least T
\* seconds old at t (or NULL).
C4_ReclaimIff ==
  [][\A w \in Workers : \A k \in DOMAIN queue :
       /\ pc[w] = "claim_update" /\ pc'[w] # "claim_update"
       /\ queue[k].status = "in_progress" /\ queue[k].lock_owner # w
       => (ClaimReturns(w, k) <=> IsStale(queue[k], claim_t[w]))]_vars

\* C4, amended: an in_progress row held by another owner is returned by
\* claim_one(w2, T) called at time t only if its locked_at is at least T seconds
\* old at t (or NULL), and it is returned whenever it is such a row and the row
\* the SELECT picked, which it is when no other row is eligible; a row with a
\* younger lease is never returned. After the reclaim the row is in_progress
\* with lock_owner = w2 and locked_at = t.
C4_Reclaim ==
  [][\A w \in Workers : \A k \in DOMAIN queue :
       /\ /\ pc[w] = "claim_update" /\ pc'[w] # "claim_update"
          /\ queue[k].status = "in_progress" /\ queue[k].lock_owner # w
          => /\ ClaimReturns(w, k) => IsStale(queue[k], claim_t[w])
             /\ IsStale(queue[k], claim_t[w]) /\ cand[w] = k => ClaimReturns(w, k)
             /\ ClaimReturns(w, k) =>
                  /\ queue'[k].status = "in_progress"
                  /\ queue'[k].lock_owner = w
                  /\ queue'[k].locked_at = claim_t[w]
       /\ /\ Selects(w)
          /\ queue[k].status = "in_progress" /\ queue[k].lock_owner # w
          => /\ cand'[w] = k => IsStale(queue[k], now)
             /\ /\ IsStale(queue[k], now)
                /\ \A j \in DOMAIN queue \ {k} : ~IsEligible(queue[j], now)
                => cand'[w] = k]_vars

\* a worker has taken over the stale lease of a worker that is still
\* processing the key
C4_Witness ==
  \E w \in Workers : \E v \in Workers \ {w} :
    /\ permit_key[w] # NULL
    /\ permit_key[v] = permit_key[w]
    /\ queue[permit_key[w]].status = "in_progress"
    /\ queue[permit_key[w]].lock_owner = w
    /\ queue[permit_key[w]].locked_at > Epoch0

\* C5 as stated: on consecutive Transient failures of a key, the failure that
\* brings attempts to n < max_attempts stores next_retry_at - now =
\* min(base_delay * 2^(n-1), max_delay).
C5_StoredDelayExponential ==
  [][\A k \in DOMAIN queue :
       /\ \E w \in Workers : Records(w, k)
       /\ queue[k].last_error \in {"NULL", "TransientAPIError"}
       /\ queue'[k].last_error = "TransientAPIError"
       /\ queue'[k].attempts = queue[k].attempts + 1
       /\ queue'[k].attempts < MaxAttempts
       => queue'[k].next_retry_at - now =
            Min(BaseSleep * Pow2(queue'[k].attempts - 1), MaxSleep)]_vars

\* C6: compute_backoff equals its reference: min(hint, max_delay) with a hint,
\* whatever the attempt number; without one min(base_delay * 2^(attempt_no-1),
\* max_delay), which is 1, 2, 4, 8, 16, 32, 64, 120 for attempts 1..8, never
\* above max_delay and never below the value of the attempt before.
BackoffTable == <<1, 2, 4, 8, 16, 32, 64, 120>>

C6_BackoffReference ==
  bo_out # NULL =>
    /\ bo_hint # NULL => bo_out = (IF bo_hint <= 120 THEN bo_hint ELSE 120)
    /\ bo_hint = NULL =>
         /\ bo_out = (IF bo_attempt <= 8 THEN BackoffTable[bo_attempt] ELSE 120)
         /\ bo_attempt > 1 => compute_backoff(bo_attempt - 1, NULL) <= bo_out
    /\ bo_out <= 120

\* attempt 8 without a hint is capped: 120, not 128
C6_Witness == bo_out = 120 /\ bo_attempt = 8 /\ bo_hint = NULL

\* C7: a seed_queue call changes no existing row, adds one fresh pending row
\* (attempts 0, no lease, no next_retry_at, no error) for each of its source
\* keys not yet in the queue and nothing else, and returns the number of rows it
\* added; when every source key is in the queue already it returns 0 and leaves
\* the table identical. No step removes a row.
SeedRuns == inserted = NULL /\ inserted' # NULL

FirstKeys(S, n) == {k \in S : Cardinality({j \in S : j < k}) < n}

C7_IdempotentSeed ==
  [][/\ SeedRuns =>
          /\ \A k \in DOMAIN queue : k \in DOMAIN queue' /\ queue'[k] = queue[k]
          /\ \A k \in DOMAIN queue' \ DOMAIN queue :
               queue'[k] = [status |-> "pending", attempts |-> 0,
                            next_retry_at |-> NULL, locked_at |-> NULL,
                            lock_owner |-> NULL, last_error |-> "NULL",
                            updated_at |-> now]
          /\ \/ DOMAIN queue' = DOMAIN queue \cup permit_current
             \/ \E n \in 0..Cardinality(permit_current) :
                  DOMAIN queue' = DOMAIN queue \cup FirstKeys(permit_current, n)
          /\ inserted' = Cardinality(DOMAIN queue' \ DOMAIN queue)
          /\ permit_current \subseteq DOMAIN queue => inserted' = 0 /\ queue' = queue
     /\ DOMAIN queue \subseteq DOMAIN queue']_vars

\* a repeated seed returned 0 on a queue whose rows have moved on
C7_Witness ==
  /\ inserted = 0
  /\ permit_current \subseteq DOMAIN queue
  /\ \E k \in DOMAIN queue : queue[k].status # "pending"

\* C8: the row claim_one's SELECT picks is eligible and minimal among the
\* eligible rows in the order (tier, next_retry_at with NULL earliest,
\* updated_at), tier being pending < retry-due failed < stale in_progress; and
\* the key claim_one returns is the one it picked.
Tier(r, t) == IF IsPending(r) THEN 0 ELSE IF IsRetryDue(r, t) THEN 1 ELSE 2

ClaimOrderLess(a, b, t) ==
  \/ Tier(a, t) < Tier(b, t)
  \/ /\ Tier(a, t) = Tier(b, t)
     /\ \/ a.next_retry_at < b.next_retry_at
        \/ a.next_retry_at = b.next_retry_at /\ a.updated_at < b.updated_at

C8_ClaimPriority ==
  [][\A w \in Workers :
       /\ Selects(w) =>
            /\ cand'[w] \in DOMAIN queue
            /\ IsEligible(queue[cand'[w]], now)
            /\ \A j \in DOMAIN queue :
                 IsEligible(queue[j], now) =>
                   ~ClaimOrderLess(queue[j], queue[cand'[w]], now)
       /\ \A k \in DOMAIN queue : ClaimReturns(w, k) => k = cand[w]]_vars

\* a retry-due failed row was picked ahead of a stale in_progress row
C8_Witness ==
  \E w \in Workers : \E j \in DOMAIN queue :
    /\ pc[w] = "claim_update"
    /\ IsRetryDue(queue[cand[w]], claim_t[w])
    /\ IsStale(queue[j], claim_t[w])

\* C9: claim_one never returns a row that is failed with next_retry_at = NULL,
\* and a permanent fetch error is recorded as failed with next_retry_at = NULL.
C9_PermanentFinal ==
  [][\A k \in DOMAIN queue :
       /\ \A w \in Workers : ClaimReturns(w, k) => ~IsPermanent(queue[k])
       /\ (\E w \in Workers : Records(w, k)) /\ queue'[k].last_error = "Unhandled"
            => IsPermanent(queue'[k])]_vars

\* a claim went through while a permanently failed row sat in the queue
C9_Witness ==
  \E w \in Workers : \E k \in DOMAIN queue :
    /\ IsPermanent(queue[k])
    /\ queue[k].last_error = "Unhandled"
    /\ pc[w] = "read_attempts"
    /\ permit_key[w] # k
    /\ queue[permit_key[w]].locked_at >= queue[k].updated_at

\* C10: when the daily command has exited, its loop has finished every key of
\* the selected list, and its exit code is 2 exactly when the rate-limited
\* outcomes of the pass outnumber the ceiling given with --max-rate-limited.
C10_RateLimitCeiling ==
  d_pc = "exited" =>
    /\ d_i = Len(daily_keys)
    /\ ok + rate_limited + failed = Len(daily_keys)
    /\ exit_code = 2 <=> rate_limited > args_max_rate_limited

\* the selector has returned
Picked == d_limit # NULL

NoDuplicates(l) == \A i, j \in 1..Len(l) : l[i] = l[j] => i = j

\* C11: for every limit >= 0 and every content of the tables,
\* pick_today_permits returns a list without duplicates of length at most limit.
C11_SelectorLengthBound ==
  Picked => NoDuplicates(daily_keys) /\ Len(daily_keys) <= d_limit

\* the staleness set B of the claims at time t: keys of the universe never
\* checked or last checked before t - StaleAfter, with no cooldown or one that
\* has elapsed
InB(k, t) ==
  /\ k \in permit_current
  /\ \/ k \notin DOMAIN fetch_state
     \/ /\ fetch_state[k].last_fetched_at < t - StaleAfter
        /\ fetch_state[k].next_retry_at = NULL \/ fetch_state[k].next_retry_at <= t

LastChecked(k) == IF k \in DOMAIN fetch_state THEN fetch_state[k].last_fetched_at ELSE 0

\* B as a list: least recently checked first, then by key
ListB(t) ==
  CHOOSE b \in ListsOf({k \in PickKeys : InB(k, t)}) :
    \A i, j \in 1..Len(b) :
      i < j => \/ LastChecked(b[i]) < LastChecked(b[j])
               \/ LastChecked(b[i]) = LastChecked(b[j]) /\ b[i] < b[j]

RECURSIVE Dedupe(_)
Dedupe(l) ==
  IF l = <<>> THEN <<>>
  ELSE LET front == Dedupe(SubSeq(l, 1, Len(l) - 1))
           k == l[Len(l)]
       IN  IF \E i \in 1..Len(front) : front[i] = k THEN front ELSE Append(front, k)

FirstN(l, n) == [i \in 1..(IF Len(l) < n THEN Len(l) ELSE n) |-> l[i]]

\* C12: for limit >= 1 pick_today_permits returns the first limit elements of
\* dedupe(A ++ B), A the changed keys in the order of their query and B the
\* whole staleness list, although the code cuts B to limit rows before merging.
C12_SelectorComposition ==
  Picked /\ d_limit >= 1 =>
    daily_keys = FirstN(Dedupe(d_recent \o ListB(now)), d_limit)

\* B is longer than limit and starts with a changed key, so the cut of B to
\* limit rows drops a key while a later key of B still makes it into the list
C12_Witness ==
  /\ Picked /\ d_limit >= 1
  /\ Len(ListB(now)) > d_limit
  /\ d_recent # <<>>
  /\ ListB(now)[1] = d_recent[1]
  /\ \E i \in 1..Len(daily_keys) : daily_keys[i] = ListB(now)[d_limit]
  /\ Len(daily_keys) = d_limit

NotFound == [http |-> 404, transfers |-> 0]

\* the daily loop finishes the key at position d_i + 1
DailyRecords(k) == DailyItem /\ d_i' = d_i + 1 /\ daily_keys[d_i + 1] = k

C14_CooperativeCancel ==
  [][\A w \in Workers :
       pc[w] # "stopped" /\ pc'[w] = "stopped" =>
         /\ pc[w] \notin {"read_attempts", "fetch"}
         /\ \A k \in DOMAIN queue' :
              ~(queue'[k].status = "in_progress" /\ queue'[k].lock_owner = w)]_vars

\* the outcome labels mark_state is called with
DailyLabels == {"ok", "ok_404_no_transfers", "rate_limited", "failed"}

\* C15: whatever the remote answer for an item, the worker records an outcome
\* for it and goes on. Backfill: the step that ends the fetch leaves the row
\* done or failed, released and stamped now, and the worker back at its loop
\* (idle, or in the cooldown sleep), never stopped. Daily: the step that ends an
\* item records the key with one of the outcome labels at now, counts it once
\* and moves to the next position of the unchanged list; the command exits only
\* when every key of the list was processed. When the ownership update raises
\* after fetch and upsert, the outcome is done / ok.
C15_FailureIsolation ==
  [][/\ \A w \in Workers : \A k \in DOMAIN queue :
          /\ pc[w] = "fetch" /\ permit_key[w] = k /\ pc'[w] # "fetch" =>
               /\ queue'[k].status \in {"done", "failed"}
               /\ queue'[k].updated_at = now
               /\ queue'[k].lock_owner = NULL
               /\ pc'[w] \in {"idle", "cooldown"}
          /\ permit_key[w] = k /\ (\E data \in FetchResults : FetchDone(w, data, "raises")) =>
               queue'[k].status = "done" /\ pc'[w] = "idle"
     /\ DailyItem /\ (d_i' # d_i \/ d_pc' # d_pc) =>
          LET k == daily_keys[d_i + 1]
          IN  /\ d_i' = d_i + 1
              /\ daily_keys' = daily_keys
              /\ k \in DOMAIN fetch_state'
              /\ fetch_state'[k].last_status \in DailyLabels
              /\ fetch_state'[k].last_fetched_at = now
              /\ ok' + rate_limited' + failed' = ok + rate_limited + failed + 1
              /\ d_pc' \in {"loop", "cooldown"}
     /\ (\E data \in FetchResults : DailyOk(data, "raises")) =>
          fetch_state'[daily_keys[d_i + 1]].last_status \in {"ok", "ok_404_no_transfers"}
     /\ d_pc' = "exited" => d_i' = Len(daily_keys')]_vars

\* the daily pass went on to its second key after the first one failed
C15_Witness ==
  /\ Len(daily_keys) = 2 /\ d_i = 2
  /\ failed = 1 /\ ok = 1
  /\ fetch_state[daily_keys[1]].last_status = "failed"
  /\ fetch_state[daily_keys[2]].last_status = "ok"

\* C16: every Rate-limited outcome of an item, also the one that exhausts the
\* attempt budget, is followed by one cooldown sleep of at most min(retry
\* delay, 10) seconds that ends before the worker's next claim (a delay of 0
\* makes it a sleep of no length); Transient, permanent and successful
\* outcomes are followed by none.
C16_RateLimitCooldown ==
  [][/\ \A w \in Workers : \A k \in DOMAIN queue :
          /\ Records(w, k) /\ queue'[k].last_error = "RateLimitError" =>
               \/ /\ pc'[w] = "cooldown"
                  /\ cooldown'[w] > 0
                  /\ cooldown'[w] <= CooldownCap
                  /\ queue'[k].next_retry_at # NULL
                  /\ cooldown'[w] <= queue'[k].next_retry_at - now
               \/ pc'[w] = "idle" /\ queue'[k].next_retry_at = now
          /\ Records(w, k) /\ queue'[k].last_error # "RateLimitError" => pc'[w] = "idle"
          /\ pc[w] = "cooldown" => pc'[w] \in {"cooldown", "idle"}
     /\ \A k \in Keys :
          /\ DailyRecords(k) /\ fetch_state'[k].last_status = "rate_limited" =>
               \/ d_pc' = "cooldown"
               \/ d_pc' = "loop" /\ fetch_state'[k].next_retry_at = now
          /\ DailyRecords(k) /\ fetch_state'[k].last_status # "rate_limited" =>
               d_pc' = "loop"
     /\ d_pc = "cooldown" => d_pc' \in {"cooldown", "loop"}]_vars

IsFinal(r) == r.status = "done" \/ (r.status = "failed" /\ r.next_retry_at = NULL)

\* C17: with the queue seeded from a finite key set, a finite attempt budget,
\* one worker that keeps running, the clock advancing and the other workers
\* free to crash, eventually every row is done or failed with next_retry_at =
\* NULL and stays so, and from then on no row is eligible, so claim_one returns
\* no work.
C17_BackfillCompletes ==
  <>[](\A k \in DOMAIN queue : IsFinal(queue[k]) /\ ~IsEligible(queue[k], now))

\* the backfill is complete: every row is final, one of them by running out of
\* attempts, the running worker finds no work and the other worker is stopped
C17_Witness ==
  /\ \A k \in DOMAIN queue : IsFinal(queue[k])
  /\ pc[2] = "stopped"
  /\ pc[1] = "idle"
  /\ \E k \in DOMAIN queue : queue[k].status = "failed" /\ queue[k].attempts = MaxAttempts

\* claim_one returns None
ClaimReturnsNone(w) ==
  \/ pc[w] = "claim_update" /\ pc'[w] = "idle"
  \/ pc[w] = "idle" /\ pc'[w] = "idle" /\ SelectFirst(queue, now, now - LockTimeout) = {}

\* C18: when the conditional UPDATE of claim_one affects no row because another
\* worker took the selected row, claim_one queries again and claims another
\* eligible row if there is one; it returns no work only when no row is
\* eligible at the moment it returns.
C18_ClaimRetriesLostRace ==
  [][\A w \in Workers :
       pc[w] = "claim_update" /\ pc'[w] # "claim_update" =>
         /\ ClaimReturnsNone(w) => \A k \in DOMAIN queue' : ~IsEligible(queue'[k], now)
         /\ (\E k \in DOMAIN queue' : IsEligible(queue'[k], now)) =>
              \E k \in DOMAIN queue : ClaimReturns(w, k)]_vars

\* C19: when every processing records its outcome less than lock_timeout after
\* its claim and a killed worker stays dead, no two workers are between claim
\* and recording for the same key, and every mark_done / mark_failed hits a row
\* that is in_progress with the recording worker as lock_owner.
C19_LeaseExclusion ==
  [][/\ \A w \in Workers : \A v \in Workers \ {w} :
          InFlight(w) /\ InFlight(v) => permit_key[w] # permit_key[v]
     /\ \A w \in Workers :
          InFlight(w) =>
            /\ queue[permit_key[w]].status = "in_progress"
            /\ queue[permit_key[w]].lock_owner = w
     /\ \A w \in Workers : \A k \in DOMAIN queue :
          Records(w, k) => queue[k].status = "in_progress" /\ queue[k].lock_owner = w]_vars

\* a worker is about to take over the row a killed worker left in_progress,
\* whose lease has gone stale
C19_Witness ==
  \E w \in Workers : \E v \in Workers \ {w} :
    /\ pc[w] = "claim_update"
    /\ pc[v] = "stopped"
    /\ queue[cand[w]].status = "in_progress"
    /\ queue[cand[w]].lock_owner = v
    /\ IsStale(queue[cand[w]], claim_t[w])

\* C20: the stored attempts of a row never decreases, whatever the workers do.
C20_AttemptsMonotone ==
  [][\A k \in DOMAIN queue : queue'[k].attempts >= queue[k].attempts]_vars

\* C21: in every reachable state of the queue table a row that is in_progress
\* has locked_at and lock_owner set, and a row that is pending, done or failed
\* has both NULL.
C21_LeaseFields ==
  \A k \in DOMAIN queue :
    /\ queue[k].status = "in_progress" =>
         queue[k].locked_at # NULL /\ queue[k].lock_owner # NULL
    /\ queue[k].status \in {"pending", "done", "failed"} =>
         queue[k].locked_at = NULL /\ queue[k].lock_owner = NULL

\* one row is under a lease while the other one was released by a recorded
\* failure
C21_Witness ==
  \E j \in DOMAIN queue : \E k \in DOMAIN queue :
    /\ queue[j].status = "in_progress"
    /\ queue[j].lock_owner \in Workers
    /\ queue[j].attempts > 0
    /\ queue[k].status = "failed"
    /\ queue[k].attempts > 0

\* the key is in the list the current daily run selected
Selected(k) ==
  d_pc \in {"loop", "cooldown"} /\ \E i \in 1..Len(daily_keys) : daily_keys[i] = k

\* a run has just selected, and its changed keys left a slot of the limit free
RoomStart == d_pc = "loop" /\ d_i = 0 /\ d_limit # NULL /\ Len(d_recent) < d_limit

\* C22 as stated: over repeated daily runs with limit >= 1, every key of the
\* universe is eventually in the selection of some run, whatever the changed
\* keys of each run are.
C22_EventualRevisit == \A k \in Keys : <>Selected(k)

\* C22, amended: over repeated daily runs with limit >= 1, every key of the
\* universe is eventually in the selection of some run, provided that again and
\* again a run has fewer changed keys than limit.
C22_RevisitWithRoom == \A k \in Keys : ([]<>RoomStart) => <>Selected(k)

\* a key that was never among the changed keys is selected through the
\* staleness list, after a run whose changed keys had filled the limit
C22_Witness ==
  /\ d_pc = "loop" /\ d_i = 0
  /\ d_recent = <<1>> /\ d_limit = 2
  /\ daily_keys = <<1, 2>>
  /\ 1 \in DOMAIN fetch_state
  /\ 2 \notin DOMAIN fetch_state

\* the keys of a list
KeysOf(l) == {l[i] : i \in 1..Len(l)}

OnlyRow(k) ==
  /\ DOMAIN queue' = DOMAIN queue
  /\ \A j \in DOMAIN queue : j # k => queue'[j] = queue[j]

\* C24: the SELECT of claim_one changes no row; its UPDATE changes at most the
\* selected row, and on it only status, locked_at, lock_owner and updated_at
\* (attempts, next_retry_at and last_error keep their values); a claim_one call
\* that returns no work changes no row; mark_done and mark_failed change only
\* the row of the given key, and mark_done leaves attempts and next_retry_at
\* unchanged.
C24_QueueFrame ==
  [][\A w \in Workers :
       /\ Selects(w) => queue' = queue
       /\ pc[w] = "claim_update" /\ pc'[w] # "claim_update" =>
            /\ OnlyRow(cand[w])
            /\ queue'[cand[w]].attempts = queue[cand[w]].attempts
            /\ queue'[cand[w]].next_retry_at = queue[cand[w]].next_retry_at
            /\ queue'[cand[w]].last_error = queue[cand[w]].last_error
            /\ ClaimReturnsNone(w) => queue' = queue
       /\ \A k \in DOMAIN queue :
            Records(w, k) =>
              /\ OnlyRow(k)
              /\ queue'[k].status \in {"done", "failed"}
              /\ queue'[k].status = "done" =>
                   /\ queue'[k].attempts = queue[k].attempts
                   /\ queue'[k].next_retry_at = queue[k].next_retry_at]_vars

\* a worker has reclaimed the stale lease of a row that failed before, its
\* earlier holder still fetching, and the row kept its attempt count while the
\* other row of the table is done
C24_Witness ==
  \E w \in Workers : \E v \in Workers \ {w} : \E k \in DOMAIN queue : \E j \in DOMAIN queue :
    /\ pc[w] = "read_attempts" /\ permit_key[w] = k
    /\ pc[v] = "fetch" /\ permit_key[v] = k
    /\ queue[k].status = "in_progress" /\ queue[k].lock_owner = w
    /\ queue[k].attempts > 0
    /\ j # k /\ queue[j].status = "done"

====
